---- MODULE Spec2Model ----
(***************************************************************************)
(* Model of python_test/back/app.py: a Flask application that keeps two   *)
(* process-wide dicts (users_db, items_db) and exposes CRUD routes.        *)
(*                                                                         *)
(* A request is served by one atomic action: before_request hook, URL      *)
(* dispatch, view function, error handling, after_request hook.  The       *)
(* response stays "in flight" (variable resp) until the client takes it    *)
(* (action Close); the next request is then accepted.                      *)
(*                                                                         *)
(* SpecThreaded is the server with threaded=True: two requests at a time,  *)
(* each view split at its accesses to the dicts.                           *)
(*                                                                         *)
(* Strings the code inspects character by character (ids, names, the q     *)
(* parameter, prices) are sequences of one-character strings.              *)
(***************************************************************************)
EXTENDS Integers, Sequences, FiniteSets, TLC

VARIABLES users_db, items_db, clock, req, resp, threads, oid, heap

vars == <<users_db, items_db, clock, req, resp, threads, oid, heap>>

\* What the threads of the threaded server add to the state: the locals of
\* each thread, the identity of the object stored under each key of
\* users_db, and the user objects that are referred to but not stored.
thread_vars == <<threads, oid, heap>>

\* Bounds of the exploration.
MaxUsers == 2
MaxItems == 2
MaxClock == 1

\* config['debug'] of the __main__ block.
debug == TRUE

(***************************************************************************)
(* Python built-ins used by the views                                      *)
(***************************************************************************)
Digits == <<"0", "1", "2", "3", "4", "5", "6", "7", "8", "9">>

IsDigit(c) == \E d \in 1..10 : Digits[d] = c

DigitVal(c) == (CHOOSE d \in 1..10 : Digits[d] = c) - 1

\* str(n) for a non-negative int: its decimal digits.
RECURSIVE str(_)
str(n) == IF n < 10 THEN <<Digits[n + 1]>>
          ELSE str(n \div 10) \o <<Digits[(n % 10) + 1]>>

\* Value of a sequence of decimal digits.
RECURSIVE DigitsValue(_)
DigitsValue(s) == IF s = <<>> THEN 0
                  ELSE 10 * DigitsValue(SubSeq(s, 1, Len(s) - 1)) + DigitVal(s[Len(s)])

\* str.lower() on the characters the model uses.
Upper == <<"A", "B", "G", "I", "W">>
Lower == <<"a", "b", "g", "i", "w">>

LowerChar(c) == IF \E k \in 1..Len(Upper) : Upper[k] = c
                THEN Lower[CHOOSE k \in 1..Len(Upper) : Upper[k] = c]
                ELSE c

lower(s) == [k \in 1..Len(s) |-> LowerChar(s[k])]

\* sub in s, for two strings.
str_contains(sub, s) ==
    \E k \in 0..(Len(s) - Len(sub)) : SubSeq(s, k + 1, k + Len(sub)) = sub

(***************************************************************************)
(* JSON values.  A scalar is a string, a number or null; a document (a     *)
(* request body after parsing) is an object of scalars, a list of strings  *)
(* or null.  Python's None is JSON null.                                   *)
(***************************************************************************)
JStr(s) == [t |-> "str", s |-> s, n |-> 0]
JNum(n) == [t |-> "num", s |-> <<>>, n |-> n]
JNull == [t |-> "null", s |-> <<>>, n |-> 0]

JObj(o) == [t |-> "obj", o |-> o, l |-> <<>>]
JList(l) == [t |-> "list", o |-> <<>>, l |-> l]
JNone == [t |-> "null", o |-> <<>>, l |-> <<>>]

\* bool(v) of a scalar.
truthy(v) == CASE v.t = "str" -> v.s # <<>>
               [] v.t = "num" -> v.n # 0
               [] OTHER -> FALSE

\* bool(data) of a document.
doc_truthy(d) == CASE d.t = "obj" -> DOMAIN d.o # {}
                   [] d.t = "list" -> d.l # <<>>
                   [] OTHER -> FALSE

\* float(v).  Floats are kept in hundredths (float 9.99 is 999).  A string
\* is accepted when it is digits with at most one "." and at least one
\* digit; None raises TypeError, any other string ValueError.
float(v) ==
    CASE v.t = "num" -> [exc |-> "", val |-> 100 * v.n]
      [] v.t = "null" -> [exc |-> "TypeError", val |-> 0]
      [] OTHER ->
           LET s == v.s
               dots == {k \in 1..Len(s) : s[k] = "."}
               wellFormed == /\ Cardinality(dots) <= 1
                             /\ \A k \in 1..Len(s) : IsDigit(s[k]) \/ s[k] = "."
                             /\ \E k \in 1..Len(s) : IsDigit(s[k])
               dot == IF dots = {} THEN Len(s) + 1 ELSE CHOOSE k \in dots : TRUE
               whole == SubSeq(s, 1, dot - 1)
               frac == SubSeq(s, dot + 1, Len(s))
               frac2 == SubSeq(frac \o <<"0", "0">>, 1, 2)
           IN  IF wellFormed
               THEN [exc |-> "", val |-> 100 * DigitsValue(whole) + DigitsValue(frac2)]
               ELSE [exc |-> "ValueError", val |-> 0]

\* datetime.isoformat(): the text of a clock reading.
isoformat(t) == [iso |-> t]

(***************************************************************************)
(* Requests and responses                                                  *)
(***************************************************************************)
\* A request.  path is the sequence of path segments, "*" standing for a
\* variable segment whose text is arg; args is the query string (a mapping
\* of parameter names); is_json tells whether the Content-Type is JSON;
\* payload is "json" when the body parses as JSON (then data is the
\* document), "empty" or "malformed" otherwise.
Request(method, path, arg, args, body) ==
    [method |-> method, path |-> path, arg |-> arg, args |-> args,
     is_json |-> body.is_json, payload |-> body.payload, data |-> body.data]

NoBody == [is_json |-> FALSE, payload |-> "empty", data |-> JNone]
EmptyBody == [is_json |-> TRUE, payload |-> "empty", data |-> JNone]
MalformedBody == [is_json |-> TRUE, payload |-> "malformed", data |-> JNone]
JsonBody(d) == [is_json |-> TRUE, payload |-> "json", data |-> d]

\* No request is being served.
NoRequest == Request("", <<>>, <<>>, <<>>, NoBody)

\* jsonify(body), status: a JSON response.  exc is "" for a response and the
\* exception's class for a raised exception.
Response(status, body) ==
    [status |-> status, mimetype |-> "application/json", body |-> body,
     headers |-> <<>>, exc |-> ""]

Raise(e) == [status |-> 0, mimetype |-> "", body |-> <<>>, headers |-> <<>>, exc |-> e]

NoResponse == Raise("")

\* What a view leaves behind: the two dicts, the last clock reading, and the
\* view's return value (or the exception it raised).
Outcome(users, items, now, rv) ==
    [users |-> users, items |-> items, clock |-> now, rv |-> rv]

\* request.get_json().  With a JSON Content-Type the body is parsed and a
\* parse failure raises BadRequest (on_json_loading_failed).  With any other
\* Content-Type the result depends on the installed Werkzeug, which the
\* repository does not pin: None, BadRequest or UnsupportedMediaType.
Werkzeug == {"none", "BadRequest", "UnsupportedMediaType"}

get_json(r, w) ==
    IF ~r.is_json
    THEN [exc |-> IF w = "none" THEN "" ELSE w, data |-> JNone]
    ELSE IF r.payload # "json"
         THEN [exc |-> "BadRequest", data |-> JNone]
         ELSE [exc |-> "", data |-> r.data]

\* key in data
doc_in(key, d) ==
    CASE d.t = "obj" -> [exc |-> "", val |-> key \in DOMAIN d.o]
      [] d.t = "list" -> [exc |-> "", val |-> \E k \in 1..Len(d.l) : d.l[k] = key]
      [] OTHER -> [exc |-> "TypeError", val |-> FALSE]

\* data.get(key, default) on a dict
dict_get(o, key, default) == IF key \in DOMAIN o THEN o[key] ELSE default

\* users_db[key] = value
dict_set(db, key, value) ==
    [k \in DOMAIN db \cup {key} |-> IF k = key THEN value ELSE db[k]]

\* The key left in the dict.
dict_pop_keeps(db, key) == db

\* users_db.pop(key): the dict without the key
dict_pop(db, key) == [k \in DOMAIN db \ {key} |-> db[k]]

\* The id taken from the size as it is.
next_id_no_increment(db) == str(Cardinality(DOMAIN db))

\* str(len(db) + 1): the id a create assigns.
next_id(db) == str(Cardinality(DOMAIN db) + 1)

\* list(db.values()); the order of the list is not modelled.
values(db) == {db[k] : k \in DOMAIN db}

(***************************************************************************)
(* The views.  Each takes the request, the two dicts and the clock         *)
(* readings it makes, and gives its Outcome.                               *)
(***************************************************************************)
\* The body of every 400 of the create views: "missing required field: <field>".
MissingField(field) == [error |-> <<"missing required field", field>>]

UserNotFound == [error |-> "user does not exist"]
ItemNotFound == [error |-> "item does not exist"]

Endpoints == [GET |-> {"/", "/users", "/users/<id>", "/items"},
              POST |-> {"/users", "/items"},
              PUT |-> {"/users/<id>"},
              DELETE |-> {"/users/<id>", "/items/<id>"}]

home(r, users, items, now) ==
    Outcome(users, items, now,
            Response(200, [message |-> "Welcome to the Home Page",
                           status |-> "success",
                           timestamp |-> isoformat(now),
                           endpoints |-> Endpoints]))

health_check(r, users, items, now) ==
    Outcome(users, items, now,
            Response(200, [status |-> "healthy", timestamp |-> isoformat(now)]))

get_users(r, users, items, now) ==
    Outcome(users, items, now,
            Response(200, [users |-> values(users),
                           count |-> Cardinality(DOMAIN users)]))

\* The 404 answered without its status.
get_user_default_status(r, users, items, now) ==
    LET user_id == r.arg
    IN  Outcome(users, items, now,
                IF user_id \in DOMAIN users THEN Response(200, users[user_id])
                ELSE Response(200, UserNotFound))

\* The user taken out of the dict, not looked up.
get_user_pops(r, users, items, now) ==
    LET user_id == r.arg
    IN  IF user_id \in DOMAIN users
        THEN Outcome(dict_pop(users, user_id), items, now, Response(200, users[user_id]))
        ELSE Outcome(users, items, now, Response(404, UserNotFound))

\* users_db.get(user_id), then the truth value of the dict found.
get_user(r, users, items, now) ==
    LET user_id == r.arg
        found == user_id \in DOMAIN users /\ DOMAIN users[user_id] # {}
    IN  Outcome(users, items, now,
                IF found THEN Response(200, users[user_id])
                ELSE Response(404, UserNotFound))

\* t1 and t2 are the two readings of datetime.now().
create_user(r, users, items, now, t1, t2, w) ==
    LET got == get_json(r, w)
        data == got.data
        user_id == next_id(users)
        user == [id |-> user_id,
                 name |-> data.o["name"],
                 email |-> dict_get(data.o, "email", JStr(<<>>)),
                 created_at |-> isoformat(t1),
                 updated_at |-> isoformat(t2)]
    IN  IF got.exc # "" THEN Outcome(users, items, now, Raise(got.exc))
        ELSE IF ~doc_truthy(data)
        THEN Outcome(users, items, now, Response(400, MissingField("name")))
        ELSE IF data.t # "obj"
        THEN Outcome(users, items, now, Raise("AttributeError"))
        ELSE IF ~truthy(dict_get(data.o, "name", JNull))
        THEN Outcome(users, items, now, Response(400, MissingField("name")))
        ELSE Outcome(dict_set(users, user_id, user), items, t2, Response(201, user))

\* The field overwritten whether or not the body holds it.
update_field_always(user, field, data) ==
    [user EXCEPT ![field] = dict_get(data.o, field, JNull)]

\* if field in data: user[field] = data[field]
update_field(user, field, data) ==
    IF doc_in(field, data).val THEN [user EXCEPT ![field] = data.o[field]] ELSE user

\* updated_at stamped before the body is looked at.
update_user_stamps_first(r, users, items, now, w) ==
    LET user_id == r.arg
        got == get_json(r, w)
        data == got.data
        user == [users[user_id] EXCEPT !.updated_at = isoformat(now)]
        stamped == dict_set(users, user_id, user)
        hasName == doc_in("name", data)
        hasEmail == doc_in("email", data)
        user1 == update_field(user, "name", data)
        user2 == update_field(user1, "email", data)
    IN  IF user_id \notin DOMAIN users
        THEN Outcome(users, items, now, Response(404, UserNotFound))
        ELSE IF got.exc # "" THEN Outcome(users, items, now, Raise(got.exc))
        ELSE IF hasName.exc # "" THEN Outcome(stamped, items, now, Raise(hasName.exc))
        ELSE IF hasName.val /\ data.t # "obj"
        THEN Outcome(stamped, items, now, Raise("TypeError"))
        ELSE IF hasEmail.exc # ""
        THEN Outcome(dict_set(users, user_id, user1), items, now, Raise(hasEmail.exc))
        ELSE IF hasEmail.val /\ data.t # "obj"
        THEN Outcome(dict_set(users, user_id, user1), items, now, Raise("TypeError"))
        ELSE Outcome(dict_set(users, user_id, user2), items, now, Response(200, user2))

\* The dict found is updated in place, field by field.
update_user(r, users, items, now, w) ==
    LET user_id == r.arg
        got == get_json(r, w)
        data == got.data
        user == users[user_id]
        hasName == doc_in("name", data)
        hasEmail == doc_in("email", data)
        user1 == update_field(user, "name", data)
        user2 == update_field(user1, "email", data)
        user3 == [user2 EXCEPT !.updated_at = isoformat(now)]
    IN  IF user_id \notin DOMAIN users
        THEN Outcome(users, items, now, Response(404, UserNotFound))
        ELSE IF got.exc # "" THEN Outcome(users, items, now, Raise(got.exc))
        ELSE IF hasName.exc # "" THEN Outcome(users, items, now, Raise(hasName.exc))
        ELSE IF hasName.val /\ data.t # "obj"
        THEN Outcome(users, items, now, Raise("TypeError"))
        ELSE IF hasEmail.exc # ""
        THEN Outcome(dict_set(users, user_id, user1), items, now, Raise(hasEmail.exc))
        ELSE IF hasEmail.val /\ data.t # "obj"
        THEN Outcome(dict_set(users, user_id, user1), items, now, Raise("TypeError"))
        ELSE Outcome(dict_set(users, user_id, user3), items, now, Response(200, user3))

delete_user(r, users, items, now) ==
    LET user_id == r.arg
    IN  IF user_id \notin DOMAIN users
        THEN Outcome(users, items, now, Response(404, UserNotFound))
        ELSE Outcome(dict_pop(users, user_id), items, now,
                     Response(200, [message |-> "user deleted",
                                    user |-> users[user_id]]))

\* item['name'].lower() raises AttributeError on a name that is no string.
get_items(r, users, items, now) ==
    LET query == dict_get(r.args, "q", <<>>)
        all == DOMAIN items
        bad == {k \in all : items[k].name.t # "str"}
        kept == IF query # <<>>
                THEN {k \in all : str_contains(lower(query), lower(items[k].name.s))}
                ELSE all
    IN  IF query # <<>> /\ bad # {}
        THEN Outcome(users, items, now, Raise("AttributeError"))
        ELSE Outcome(users, items, now,
                     Response(200, [items |-> {items[k] : k \in kept},
                                    count |-> Cardinality(kept),
                                    query |-> query]))

required_fields == <<"name", "price">>

\* The field counted as present only when its value is truthy.
field_present_truthy(field, data) ==
    LET found == doc_in(field, data)
    IN  [exc |-> found.exc,
         val |-> found.val /\ data.t = "obj" /\ truthy(data.o[field])]

\* field in data
field_present(field, data) == doc_in(field, data)

\* One counter for both dicts: the id taken from the size of users_db.
create_item_shared_counter(r, users, items, now, w) ==
    LET got == get_json(r, w)
        data == got.data
        has == [f \in 1..Len(required_fields) |-> field_present(required_fields[f], data)]
        missing == {f \in 1..Len(required_fields) : ~has[f].val}
        first == CHOOSE f \in missing : \A g \in missing : f <= g
        item_id == next_id(users)
        price == float(data.o["price"])
        item == [id |-> item_id,
                 name |-> data.o["name"],
                 price |-> price.val,
                 description |-> dict_get(data.o, "description", JStr(<<>>)),
                 created_at |-> isoformat(now)]
    IN  IF got.exc # "" THEN Outcome(users, items, now, Raise(got.exc))
        ELSE IF has[1].exc # "" THEN Outcome(users, items, now, Raise(has[1].exc))
        ELSE IF missing # {}
        THEN Outcome(users, items, now, Response(400, MissingField(required_fields[first])))
        ELSE IF data.t # "obj" THEN Outcome(users, items, now, Raise("TypeError"))
        ELSE IF price.exc # "" THEN Outcome(users, items, now, Raise(price.exc))
        ELSE Outcome(users, dict_set(items, item_id, item), now, Response(201, item))

create_item(r, users, items, now, w) ==
    LET got == get_json(r, w)
        data == got.data
        has == [f \in 1..Len(required_fields) |-> field_present(required_fields[f], data)]
        missing == {f \in 1..Len(required_fields) : ~has[f].val}
        first == CHOOSE f \in missing : \A g \in missing : f <= g
        item_id == next_id(items)
        price == float(data.o["price"])
        item == [id |-> item_id,
                 name |-> data.o["name"],
                 price |-> price.val,
                 description |-> dict_get(data.o, "description", JStr(<<>>)),
                 created_at |-> isoformat(now)]
    IN  IF got.exc # "" THEN Outcome(users, items, now, Raise(got.exc))
        ELSE IF has[1].exc # "" THEN Outcome(users, items, now, Raise(has[1].exc))
        ELSE IF missing # {}
        THEN Outcome(users, items, now, Response(400, MissingField(required_fields[first])))
        ELSE IF data.t # "obj" THEN Outcome(users, items, now, Raise("TypeError"))
        ELSE IF price.exc # "" THEN Outcome(users, items, now, Raise(price.exc))
        ELSE Outcome(users, dict_set(items, item_id, item), now, Response(201, item))

delete_item(r, users, items, now) ==
    LET item_id == r.arg
    IN  IF item_id \notin DOMAIN items
        THEN Outcome(users, items, now, Response(404, ItemNotFound))
        ELSE Outcome(users, dict_pop(items, item_id), now,
                     Response(200, [message |-> "item deleted",
                                    item |-> items[item_id]]))

(***************************************************************************)
(* The application: hooks, URL map, error handlers                         *)
(***************************************************************************)
\* @app.route(...) of every view.
url_map ==
    { [rule |-> <<>>, methods |-> {"GET"}, endpoint |-> "home"],
      [rule |-> <<"health">>, methods |-> {"GET"}, endpoint |-> "health_check"],
      [rule |-> <<"users">>, methods |-> {"GET"}, endpoint |-> "get_users"],
      [rule |-> <<"users", "*">>, methods |-> {"GET"}, endpoint |-> "get_user"],
      [rule |-> <<"users">>, methods |-> {"POST"}, endpoint |-> "create_user"],
      [rule |-> <<"users", "*">>, methods |-> {"PUT"}, endpoint |-> "update_user"],
      [rule |-> <<"users", "*">>, methods |-> {"DELETE"}, endpoint |-> "delete_user"],
      [rule |-> <<"items">>, methods |-> {"GET"}, endpoint |-> "get_items"],
      [rule |-> <<"items">>, methods |-> {"POST"}, endpoint |-> "create_item"],
      [rule |-> <<"items", "*">>, methods |-> {"DELETE"}, endpoint |-> "delete_item"] }

\* The endpoint a request is routed to, or the routing exception.
match(r) ==
    LET byPath == {u \in url_map : u.rule = r.path}
        byMethod == {u \in byPath : r.method \in u.methods}
    IN  IF byPath = {} THEN "NotFound"
        ELSE IF byMethod = {} THEN "MethodNotAllowed"
        ELSE (CHOOSE u \in byMethod : TRUE).endpoint

\* @app.before_request: the exception the hook raises, "" when none.
log_request_info(r, w) ==
    IF r.method \in {"POST", "PUT"} THEN get_json(r, w).exc ELSE ""

\* @app.after_request
add_header(response) ==
    [response EXCEPT !.headers = [h \in {"X-Powered-By", "Server"} |->
                                     IF h = "Server" THEN "Simple Flask API" ELSE "Flask"]]

\* @app.errorhandler(404)
not_found(r) ==
    Response(404, [error |-> "resource not found", message |-> "404 Not Found",
                   path |-> r.path])

\* @app.errorhandler(405)
method_not_allowed(r) ==
    Response(405, [error |-> "method not allowed", message |-> r.method])

\* @app.errorhandler(500)
internal_error(r) ==
    Response(500, [error |-> "internal server error", message |-> "retry later"])

\* An HTTPException with no registered handler is its own response: an HTML page.
default_page(status, name) ==
    [status |-> status, mimetype |-> "text/html", body |-> [page |-> name],
     headers |-> <<>>, exc |-> ""]

\* The page of the interactive debugger that app.run(debug=True) wraps the
\* application in: the traceback of the exception that propagated.
debugger_page(e) ==
    [status |-> 500, mimetype |-> "text/html", body |-> [traceback |-> e],
     headers |-> <<>>, exc |-> ""]

\* The response to a return value or a raised exception.  Registered
\* handlers: 404, 405, 500.  With debug on, an exception that is no
\* HTTPException propagates out of the application (no 500 handler, no
\* after_request hook).
finalize_request(r, rv) ==
    CASE rv.exc = "" -> add_header(rv)
      [] rv.exc = "NotFound" -> add_header(not_found(r))
      [] rv.exc = "MethodNotAllowed" -> add_header(method_not_allowed(r))
      [] rv.exc = "BadRequest" -> add_header(default_page(400, "Bad Request"))
      [] rv.exc = "UnsupportedMediaType" ->
           add_header(default_page(415, "Unsupported Media Type"))
      [] OTHER -> IF debug THEN debugger_page(rv.exc) ELSE add_header(internal_error(r))

\* The view function of an endpoint, applied.
dispatch_request(r, users, items, now, t2, w) ==
    LET endpoint == match(r)
    IN  CASE endpoint = "home" -> home(r, users, items, now)
          [] endpoint = "health_check" -> health_check(r, users, items, now)
          [] endpoint = "get_users" -> get_users(r, users, items, now)
          [] endpoint = "get_user" -> get_user(r, users, items, now)
          [] endpoint = "create_user" -> create_user(r, users, items, now, now, t2, w)
          [] endpoint = "update_user" -> update_user(r, users, items, now, w)
          [] endpoint = "delete_user" -> delete_user(r, users, items, now)
          [] endpoint = "get_items" -> get_items(r, users, items, now)
          [] endpoint = "create_item" -> create_item(r, users, items, now, w)
          [] endpoint = "delete_item" -> delete_item(r, users, items, now)
          [] OTHER -> Outcome(users, items, now, Raise(endpoint))

\* One request, from the before_request hook to the final response.
full_dispatch_request(r, users, items, now, t2, w) ==
    LET hook == log_request_info(r, w)
        out == IF hook # "" THEN Outcome(users, items, now, Raise(hook))
               ELSE dispatch_request(r, users, items, now, t2, w)
    IN  [out EXCEPT !.rv = finalize_request(r, out.rv)]

(***************************************************************************)
(* The requests the clients send                                           *)
(***************************************************************************)
\* Ids a client may name: every id a create can assign within the bounds,
\* and one more that no create assigns.
UserIds == {str(n) : n \in 1..(MaxUsers + 1)}
ItemIds == {str(n) : n \in 1..(MaxItems + 1)}

Alice == JStr(<<"A">>)
Bob == JStr(<<"B">>)
Mail == JStr(<<"e">>)
Widget == JStr(<<"W", "i">>)
Gadget == JStr(<<"G", "a">>)

\* JSON bodies of POST /users.
CreateUserDocs ==
    { JNone, JObj(<<>>), JList(<<"name">>),
      JObj([name |-> JStr(<<>>)]),
      JObj([email |-> Mail]),
      JObj([name |-> Alice]),
      JObj([name |-> Bob, email |-> Mail]) }

\* JSON bodies of PUT /users/<id>.
UpdateUserDocs ==
    { JNone, JObj(<<>>), JList(<<"name">>),
      JObj([email |-> Mail]),
      JObj([name |-> Bob]),
      JObj([name |-> Bob, email |-> Mail]) }

\* JSON bodies of POST /items.
CreateItemDocs ==
    { JNone, JObj(<<>>), JList(<<"name", "price">>),
      JObj([price |-> JNum(0)]),
      JObj([name |-> Widget]),
      JObj([name |-> Widget, price |-> JStr(<<"9", ".", "9", "9">>)]),
      JObj([name |-> Gadget, price |-> JNum(0), description |-> JStr(<<"d">>)]),
      JObj([name |-> JStr(<<>>), price |-> JNum(0)]),
      JObj([name |-> JNum(5), price |-> JNum(1)]),
      JObj([name |-> Widget, price |-> JStr(<<"a">>)]),
      JObj([name |-> Widget, price |-> JNull]) }

\* No body at all, an empty or malformed body sent as JSON, or a JSON document.
Bodies(docs) == {NoBody, EmptyBody, MalformedBody} \cup {JsonBody(d) : d \in docs}

\* Query strings of GET /items: none, ?q=, ?q=wI, ?q=a
Queries == { <<>>, [q |-> <<>>], [q |-> <<"w", "I">>], [q |-> <<"a">>] }

(***************************************************************************)
(* The state machine                                                       *)
(***************************************************************************)
\* config['threaded']: every connection is served by a thread of its own.
Threads == {1, 2}

\* The locals of a thread: the line it is about to execute (pc), its
\* request, the parsed body (data), the key it works on (user_id, item_id),
\* the object its local `user` refers to (ref, 0 for none), the item it has
\* built, and its response once the view has returned.
NoThread ==
    [pc |-> "idle", req |-> NoRequest, data |-> JNone, key |-> <<>>, ref |-> 0,
     item |-> <<>>, resp |-> NoResponse]

Init ==
    /\ users_db = <<>>
    /\ items_db = <<>>
    /\ clock = 0
    /\ req = NoRequest
    /\ resp = NoResponse
    /\ threads = [t \in Threads |-> NoThread]
    /\ oid = <<>>
    /\ heap = <<>>

\* No request is being served: the server is free to take one.
Idle == req = NoRequest

\* The server answers request r.  create_user reads the clock twice, and
\* the clock may advance between the two readings.
Serve(r) ==
    \E w \in (IF r.is_json \/ r.method \notin {"POST", "PUT"} THEN {"none"} ELSE Werkzeug),
       t2 \in clock..(IF match(r) = "create_user" /\ clock < MaxClock
                      THEN clock + 1 ELSE clock) :
        LET out == full_dispatch_request(r, users_db, items_db, clock, t2, w)
        IN  /\ Cardinality(DOMAIN out.users) <= MaxUsers
            /\ Cardinality(DOMAIN out.items) <= MaxItems
            /\ users_db' = out.users
            /\ items_db' = out.items
            /\ clock' = out.clock
            /\ req' = r
            /\ resp' = out.rv
            /\ UNCHANGED thread_vars

Home ==
    /\ Idle
    /\ Serve(Request("GET", <<>>, <<>>, <<>>, NoBody))

HealthCheck ==
    /\ Idle
    /\ Serve(Request("GET", <<"health">>, <<>>, <<>>, NoBody))

GetUsers ==
    /\ Idle
    /\ Serve(Request("GET", <<"users">>, <<>>, <<>>, NoBody))

GetUser ==
    /\ Idle
    /\ \E id \in UserIds : Serve(Request("GET", <<"users", "*">>, id, <<>>, NoBody))

CreateUser ==
    /\ Idle
    /\ \E b \in Bodies(CreateUserDocs) : Serve(Request("POST", <<"users">>, <<>>, <<>>, b))

UpdateUser ==
    /\ Idle
    /\ \E id \in UserIds, b \in Bodies(UpdateUserDocs) :
           Serve(Request("PUT", <<"users", "*">>, id, <<>>, b))

DeleteUser ==
    /\ Idle
    /\ \E id \in UserIds : Serve(Request("DELETE", <<"users", "*">>, id, <<>>, NoBody))

GetItems ==
    /\ Idle
    /\ \E a \in Queries : Serve(Request("GET", <<"items">>, <<>>, a, NoBody))

CreateItem ==
    /\ Idle
    /\ \E b \in Bodies(CreateItemDocs) : Serve(Request("POST", <<"items">>, <<>>, <<>>, b))

DeleteItem ==
    /\ Idle
    /\ \E id \in ItemIds : Serve(Request("DELETE", <<"items", "*">>, id, <<>>, NoBody))

\* A path no rule matches.
UnknownPath ==
    /\ Idle
    /\ \E m \in {"GET", "POST"}, b \in {NoBody, MalformedBody} :
           Serve(Request(m, <<"nope">>, <<>>, <<>>, b))

\* A path some rule matches, under a method none of them allows.
WrongMethod ==
    /\ Idle
    /\ \E r \in { Request("DELETE", <<"users">>, <<>>, <<>>, NoBody),
                  Request("PUT", <<"items">>, <<>>, <<>>, JsonBody(JObj(<<>>))) } :
           Serve(r)

\* The client takes the response; the server is free for the next request.
Close ==
    /\ ~Idle
    /\ req' = NoRequest
    /\ resp' = NoResponse
    /\ UNCHANGED <<users_db, items_db, clock>>
    /\ UNCHANGED thread_vars

\* Time passes between two requests.
Tick ==
    /\ Idle
    /\ clock < MaxClock
    /\ clock' = clock + 1
    /\ UNCHANGED <<users_db, items_db, req, resp>>
    /\ UNCHANGED thread_vars

\* Routes that touch neither dict, and the two steps of the environment.
Common == Home \/ HealthCheck \/ UnknownPath \/ WrongMethod \/ Close \/ Tick

UserRoutes == GetUsers \/ GetUser \/ CreateUser \/ UpdateUser \/ DeleteUser

ItemRoutes == GetItems \/ CreateItem \/ DeleteItem

Next == Common \/ UserRoutes \/ ItemRoutes

\* Every route, both dicts.
Spec == Init /\ [][Next]_vars

\* The clients call the user routes only: items_db stays empty.  No user
\* view reads items_db, so the users side of every behaviour of Spec is a
\* behaviour of SpecUsers.
NextUsers == Common \/ UserRoutes

SpecUsers == Init /\ [][NextUsers]_vars

\* The clients call the item routes only: users_db stays empty.
NextItems == Common \/ ItemRoutes

SpecItems == Init /\ [][NextItems]_vars

(***************************************************************************)
(* The threaded server.  Two requests are served at a time, each by its    *)
(* own thread; a step of a thread is one access to a dict, to a user       *)
(* object or to the clock, with the local computation that leads to it.    *)
(* A user is an object: the dict and the local `user` of a view refer to   *)
(* it, and a change made through one reference is seen through the other.  *)
(* oid[k] is the identity of the object stored under key k (users_db[k] is *)
(* its value); heap holds the value of every object some thread refers to  *)
(* that is not stored.                                                     *)
(***************************************************************************)
\* The bodies and the ids the two clients send.  The clock stands still
\* while the threads run.
ThreadUserDocs == { JObj(<<>>), JObj([name |-> Alice]), JObj([name |-> Bob, email |-> Mail]) }
ThreadUpdateDocs == { JList(<<"name">>), JObj([name |-> Bob, email |-> Mail]) }
ThreadItemDocs ==
    { JObj([name |-> Widget]),
      JObj([name |-> Widget, price |-> JStr(<<"9", ".", "9", "9">>)]) }

ThreadUserIds == {str(n) : n \in 1..MaxUsers}
ThreadItemIds == {str(n) : n \in 1..MaxItems}

\* True when the key is looked up in a dict that has it.
has_key(db, key) == key \in DOMAIN db

\* The objects the threads refer to.
refs(ths) == {ths[t].ref : t \in Threads} \ {0}

\* The identity a new object gets: the least one not in use.
new_object ==
    LET used == refs(threads) \cup {oid[k] : k \in DOMAIN oid}
    IN  CHOOSE i \in 1..(Cardinality(used) + 1) :
            i \notin used /\ \A j \in 1..(i - 1) : j \in used

\* The value of the object a reference denotes.
deref(i) ==
    IF \E k \in DOMAIN oid : oid[k] = i
    THEN users_db[CHOOSE k \in DOMAIN oid : oid[k] = i]
    ELSE heap[i]

\* The dict, the identities and the detached objects as a record.
Memory(users, ids, detached) == [users |-> users, ids |-> ids, detached |-> detached]

\* user[field] = value on the object i, stored or not.
setattr(i, user) ==
    IF \E k \in DOMAIN oid : oid[k] = i
    THEN Memory(dict_set(users_db, CHOOSE k \in DOMAIN oid : oid[k] = i, user), oid, heap)
    ELSE Memory(users_db, oid, [heap EXCEPT ![i] = user])

\* users_db[key] = <the object i>: the object that was stored under key, if
\* it is another one, is detached.
setitem(key, i) ==
    LET displaced == IF key \in DOMAIN oid /\ oid[key] # i THEN {oid[key]} ELSE {}
        kept == (DOMAIN heap \ {i}) \cup displaced
    IN  Memory(dict_set(users_db, key, deref(i)),
               dict_set(oid, key, i),
               [j \in kept |-> IF j \in displaced THEN users_db[key] ELSE heap[j]])

\* users_db.pop(key): the object is detached.
popitem(key) ==
    Memory(dict_pop(users_db, key),
           dict_pop(oid, key),
           [j \in DOMAIN heap \cup {oid[key]} |->
               IF j = oid[key] THEN users_db[key] ELSE heap[j]])

\* A detached object no thread refers to is gone.
collect(mem, ths) ==
    [j \in {i \in DOMAIN mem.detached :
               /\ i \in refs(ths)
               /\ ~ \E k \in DOMAIN mem.ids : mem.ids[k] = i} |-> mem.detached[j]]

\* The thread t goes on (its locals become th) and the memory becomes mem.
Step(t, th, mem) ==
    LET ths == [threads EXCEPT ![t] = th]
    IN  /\ threads' = ths
        /\ users_db' = mem.users
        /\ oid' = mem.ids
        /\ heap' = collect(mem, ths)

\* The view of thread t returns rv (or raises): the response is made.
Return(t, rv, mem) ==
    Step(t, [threads[t] EXCEPT !.pc = "done", !.ref = 0, !.item = <<>>,
                               !.resp = finalize_request(threads[t].req, rv)], mem)

Here == Memory(users_db, oid, heap)

At(t, line) == threads[t].pc = line

\* POST /users up to line 73: the hook, the validation, the id from the
\* size of the dict, the user object with its two time stamps.
ThreadCreateUser ==
    \E t \in Threads, b \in {JsonBody(d) : d \in ThreadUserDocs} :
        LET r == Request("POST", <<"users">>, <<>>, <<>>, b)
            out == full_dispatch_request(r, users_db, items_db, clock, clock, "none")
            i == new_object
        IN  /\ At(t, "idle")
            /\ Cardinality(DOMAIN users_db) < MaxUsers
            /\ clock' = out.clock
            /\ UNCHANGED <<items_db, req, resp>>
            /\ IF out.rv.status = 201
               THEN Step(t, [threads[t] EXCEPT !.pc = "75", !.req = r,
                                               !.key = next_id(users_db), !.ref = i],
                         Memory(users_db, oid, [j \in DOMAIN heap \cup {i} |->
                                                   IF j = i THEN out.rv.body ELSE heap[j]]))
               ELSE Step(t, [threads[t] EXCEPT !.pc = "done", !.req = r, !.resp = out.rv],
                         Here)

\* line 75: users_db[user_id] = user
InsertUser ==
    \E t \in Threads :
        /\ At(t, "75")
        /\ Step(t, [threads[t] EXCEPT !.pc = "77"], setitem(threads[t].key, threads[t].ref))
        /\ Cardinality(DOMAIN users_db') <= MaxUsers
        /\ UNCHANGED <<items_db, clock, req, resp>>

\* line 77: return jsonify(user), 201
ReturnCreated ==
    \E t \in Threads :
        /\ At(t, "77")
        /\ Return(t, Response(201, deref(threads[t].ref)), Here)
        /\ UNCHANGED <<items_db, clock, req, resp>>

\* PUT /users/<id> up to line 85: the hook, the presence check, the body.
ThreadUpdateUser ==
    \E t \in Threads, id \in ThreadUserIds, b \in {JsonBody(d) : d \in ThreadUpdateDocs},
       w \in {"none"} :
        LET r == Request("PUT", <<"users", "*">>, id, <<>>, b)
            out == full_dispatch_request(r, users_db, items_db, clock, clock, w)
        IN  /\ At(t, "idle")
            /\ UNCHANGED <<items_db, clock, req, resp>>
            /\ IF log_request_info(r, w) # "" \/ ~has_key(users_db, id)
               THEN Step(t, [threads[t] EXCEPT !.pc = "done", !.req = r, !.resp = out.rv],
                         Here)
               ELSE Step(t, [threads[t] EXCEPT !.pc = "86", !.req = r, !.key = id,
                                               !.data = get_json(r, w).data], Here)

\* line 86: user = users_db[user_id]
FetchUser ==
    \E t \in Threads :
        /\ At(t, "86")
        /\ UNCHANGED <<items_db, clock, req, resp>>
        /\ IF has_key(users_db, threads[t].key)
           THEN Step(t, [threads[t] EXCEPT !.pc = "89", !.ref = oid[threads[t].key]], Here)
           ELSE Return(t, Raise("KeyError"), Here)

\* if field in data: user[field] = data[field]
SetField(t, field, line, next) ==
    LET th == threads[t]
        has == doc_in(field, th.data)
    IN  /\ At(t, line)
        /\ UNCHANGED <<items_db, clock, req, resp>>
        /\ IF has.exc # "" THEN Return(t, Raise(has.exc), Here)
           ELSE IF has.val /\ th.data.t # "obj" THEN Return(t, Raise("TypeError"), Here)
           ELSE Step(t, [th EXCEPT !.pc = next],
                     setattr(th.ref, update_field(deref(th.ref), field, th.data)))

\* lines 89-90
SetName == \E t \in Threads : SetField(t, "name", "89", "91")

\* lines 91-92
SetEmail == \E t \in Threads : SetField(t, "email", "91", "94")

\* line 94: user['updated_at'] = datetime.now().isoformat()
Stamp ==
    \E t \in Threads :
        /\ At(t, "94")
        /\ Step(t, [threads[t] EXCEPT !.pc = "95"],
                setattr(threads[t].ref,
                        [deref(threads[t].ref) EXCEPT !.updated_at = isoformat(clock)]))
        /\ UNCHANGED <<items_db, clock, req, resp>>

\* line 95: users_db[user_id] = user
StoreUser ==
    \E t \in Threads :
        /\ At(t, "95")
        /\ Step(t, [threads[t] EXCEPT !.pc = "98"], setitem(threads[t].key, threads[t].ref))
        /\ UNCHANGED <<items_db, clock, req, resp>>

\* line 98: return jsonify(user)
ReturnUpdated ==
    \E t \in Threads :
        /\ At(t, "98")
        /\ Return(t, Response(200, deref(threads[t].ref)), Here)
        /\ UNCHANGED <<items_db, clock, req, resp>>

\* DELETE /users/<id> up to line 104: the presence check.
ThreadDeleteUser ==
    \E t \in Threads, id \in ThreadUserIds :
        LET r == Request("DELETE", <<"users", "*">>, id, <<>>, NoBody)
            out == full_dispatch_request(r, users_db, items_db, clock, clock, "none")
        IN  /\ At(t, "idle")
            /\ UNCHANGED <<items_db, clock, req, resp>>
            /\ IF ~has_key(users_db, id)
               THEN Step(t, [threads[t] EXCEPT !.pc = "done", !.req = r, !.resp = out.rv],
                         Here)
               ELSE Step(t, [threads[t] EXCEPT !.pc = "106", !.req = r, !.key = id], Here)

\* line 106: deleted_user = users_db.pop(user_id)
PopUser ==
    \E t \in Threads :
        /\ At(t, "106")
        /\ UNCHANGED <<items_db, clock, req, resp>>
        /\ IF has_key(users_db, threads[t].key)
           THEN Step(t, [threads[t] EXCEPT !.pc = "108", !.ref = oid[threads[t].key]],
                     popitem(threads[t].key))
           ELSE Return(t, Raise("KeyError"), Here)

\* line 108: return jsonify({"message": ..., "user": deleted_user})
ReturnDeleted ==
    \E t \in Threads :
        /\ At(t, "108")
        /\ Return(t, Response(200, [message |-> "user deleted",
                                    user |-> deref(threads[t].ref)]), Here)
        /\ UNCHANGED <<items_db, clock, req, resp>>

\* POST /items up to line 147: the hook, the checks, the id from the size
\* of the dict, the item.
ThreadCreateItem ==
    \E t \in Threads, b \in {JsonBody(d) : d \in ThreadItemDocs} :
        LET r == Request("POST", <<"items">>, <<>>, <<>>, b)
            out == full_dispatch_request(r, users_db, items_db, clock, clock, "none")
        IN  /\ At(t, "idle")
            /\ Cardinality(DOMAIN items_db) < MaxItems
            /\ UNCHANGED <<items_db, clock, req, resp>>
            /\ IF out.rv.status = 201
               THEN Step(t, [threads[t] EXCEPT !.pc = "149", !.req = r,
                                               !.key = next_id(items_db),
                                               !.item = out.rv.body], Here)
               ELSE Step(t, [threads[t] EXCEPT !.pc = "done", !.req = r, !.resp = out.rv],
                         Here)

\* lines 149-151: items_db[item_id] = item; return jsonify(item), 201.  No
\* other thread refers to the item, so the two lines are one step.
InsertItem ==
    \E t \in Threads :
        /\ At(t, "149")
        /\ items_db' = dict_set(items_db, threads[t].key, threads[t].item)
        /\ Cardinality(DOMAIN items_db') <= MaxItems
        /\ Return(t, Response(201, threads[t].item), Here)
        /\ UNCHANGED <<clock, req, resp>>

\* DELETE /items/<id> up to line 157: the presence check.
ThreadDeleteItem ==
    \E t \in Threads, id \in ThreadItemIds :
        LET r == Request("DELETE", <<"items", "*">>, id, <<>>, NoBody)
            out == full_dispatch_request(r, users_db, items_db, clock, clock, "none")
        IN  /\ At(t, "idle")
            /\ UNCHANGED <<items_db, clock, req, resp>>
            /\ IF ~has_key(items_db, id)
               THEN Step(t, [threads[t] EXCEPT !.pc = "done", !.req = r, !.resp = out.rv],
                         Here)
               ELSE Step(t, [threads[t] EXCEPT !.pc = "159", !.req = r, !.key = id], Here)

\* lines 159-164: deleted_item = items_db.pop(item_id); return jsonify(...)
PopItem ==
    \E t \in Threads :
        /\ At(t, "159")
        /\ UNCHANGED <<clock, req, resp>>
        /\ IF has_key(items_db, threads[t].key)
           THEN /\ items_db' = dict_pop(items_db, threads[t].key)
                /\ Return(t, Response(200, [message |-> "item deleted",
                                            item |-> items_db[threads[t].key]]), Here)
           ELSE /\ items_db' = items_db
                /\ Return(t, Raise("KeyError"), Here)

\* Both clients have their responses: the threads end, and two more
\* requests may come.  The stored objects are renumbered by their keys.
Join ==
    /\ \A t \in Threads : threads[t].pc \in {"idle", "done"}
    /\ \E t \in Threads : threads[t].pc = "done"
    /\ threads' = [t \in Threads |-> NoThread]
    /\ oid' = [k \in DOMAIN users_db |-> DigitsValue(k)]
    /\ heap' = <<>>
    /\ UNCHANGED <<users_db, items_db, clock, req, resp>>

ThreadedUsers ==
    \/ ThreadCreateUser \/ InsertUser \/ ReturnCreated
    \/ ThreadUpdateUser \/ FetchUser \/ SetName \/ SetEmail \/ Stamp \/ StoreUser
    \/ ReturnUpdated
    \/ ThreadDeleteUser \/ PopUser \/ ReturnDeleted

ThreadedItems == ThreadCreateItem \/ InsertItem \/ ThreadDeleteItem \/ PopItem

NextThreaded == ThreadedUsers \/ ThreadedItems \/ Join

\* Two requests at a time, every interleaving of their steps.
SpecThreaded == Init /\ [][NextThreaded]_vars

(***************************************************************************)
(* Properties.  A step that serves a request leads from an idle state to   *)
(* a state holding the request and its response: in such a step the        *)
(* unprimed dicts are those before the request, the primed ones those      *)
(* after it.                                                               *)
(***************************************************************************)
\* The step serves a request of this method and path.
Serves(method, path) ==
    Idle /\ req'.method = method /\ req'.path = path

\* The request carries a JSON object.
ObjectBody(r) == r.is_json /\ r.payload = "json" /\ r.data.t = "obj"

\* The response is a JSON object with this key.
HasKey(response, key) ==
    response.mimetype = "application/json" /\ key \in DOMAIN response.body

\* The state holds the response to a request of this method and path.
Answered(method, path, status) ==
    req.method = method /\ req.path = path /\ resp.status = status

\* s is the decimal string of n: digits only, no leading zero, value n.
IsDecimalOf(s, n) ==
    /\ Len(s) >= 1
    /\ \A k \in 1..Len(s) : IsDigit(s[k])
    /\ (Len(s) > 1 => s[1] # "0")
    /\ DigitsValue(s) = n

\* C1: a successful POST /users returns an id that was no key of users_db
\* before the request: no stored user is overwritten and the number of
\* stored users grows by exactly one.
C1_CreateUserIdIsFresh ==
    [][ (Serves("POST", <<"users">>) /\ resp'.status = 201) =>
          /\ resp'.body.id \notin DOMAIN users_db
          /\ \A k \in DOMAIN users_db : k \in DOMAIN users_db' /\ users_db'[k] = users_db[k]
          /\ Cardinality(DOMAIN users_db') = Cardinality(DOMAIN users_db) + 1 ]_vars

\* C2: a POST /users whose body is an object with a truthy name is answered
\* 201 with a user whose id is the decimal string of (number of users
\* before + 1), whose name is the body's and whose email is the body's, or
\* "" when the body has none; users_db then maps that id to the returned user.
C2_CreateUserResult ==
    [][ (/\ Serves("POST", <<"users">>)
         /\ ObjectBody(req')
         /\ "name" \in DOMAIN req'.data.o
         /\ truthy(req'.data.o.name)) =>
          /\ resp'.status = 201
          /\ HasKey(resp', "id")
          /\ IsDecimalOf(resp'.body.id, Cardinality(DOMAIN users_db) + 1)
          /\ resp'.body.name = req'.data.o.name
          /\ resp'.body.email = (IF "email" \in DOMAIN req'.data.o
                                 THEN req'.data.o.email ELSE JStr(<<>>))
          /\ resp'.body.id \in DOMAIN users_db'
          /\ users_db'[resp'.body.id] = resp'.body ]_vars

\* C2, witnessed: the second user is created with no email in the body.
C2_Witness ==
    /\ Answered("POST", <<"users">>, 201)
    /\ "email" \notin DOMAIN req.data.o
    /\ resp.body.id = <<"2">>
    /\ resp.body.email = JStr(<<>>)
    /\ users_db[<<"2">>] = resp.body

\* db without key, every other entry as it was.
IsWithout(after, before, key) ==
    /\ DOMAIN after = DOMAIN before \ {key}
    /\ \A k \in DOMAIN after : after[k] = before[k]

\* C3: for users and for items, DELETE of a stored id is answered 200 with
\* the removed record and removes the key; DELETE of an id that is not
\* stored is answered 404 and changes nothing; only a create adds a key, so
\* a second DELETE of the same id with no create in between is answered 404.
C3_DeleteThenNotFound ==
    [][ /\ Serves("DELETE", <<"users", "*">>) =>
              IF req'.arg \in DOMAIN users_db
              THEN /\ resp'.status = 200
                   /\ HasKey(resp', "user")
                   /\ resp'.body.user = users_db[req'.arg]
                   /\ IsWithout(users_db', users_db, req'.arg)
              ELSE /\ resp'.status = 404
                   /\ users_db' = users_db
        /\ Serves("DELETE", <<"items", "*">>) =>
              IF req'.arg \in DOMAIN items_db
              THEN /\ resp'.status = 200
                   /\ HasKey(resp', "item")
                   /\ resp'.body.item = items_db[req'.arg]
                   /\ IsWithout(items_db', items_db, req'.arg)
              ELSE /\ resp'.status = 404
                   /\ items_db' = items_db
        /\ DOMAIN users_db' \subseteq DOMAIN users_db \/ Serves("POST", <<"users">>)
        /\ DOMAIN items_db' \subseteq DOMAIN items_db \/ Serves("POST", <<"items">>) ]_vars

\* C3, witnessed: user 1 was created and deleted (user 2 is still stored)
\* and a further DELETE /users/1 is answered 404, with an item stored.
C3_Witness ==
    /\ Answered("DELETE", <<"users", "*">>, 404)
    /\ req.arg = <<"1">>
    /\ DOMAIN users_db = {<<"2">>}
    /\ DOMAIN items_db # {}

\* C4: PUT /users/<id> with a JSON object body, for a stored id, is
\* answered 200 with the updated user; name and email are overwritten
\* exactly when the body holds the key; id, created_at and every other user
\* keep their values and the keys of users_db are unchanged.  For an id that
\* is not stored it is answered 404.
C4_UpdateUserFrame ==
    [][ (Serves("PUT", <<"users", "*">>) /\ ObjectBody(req')) =>
          IF req'.arg \in DOMAIN users_db
          THEN LET old == users_db[req'.arg]
                   new == users_db'[req'.arg]
                   o == req'.data.o
               IN  /\ resp'.status = 200
                   /\ DOMAIN users_db' = DOMAIN users_db
                   /\ resp'.body = new
                   /\ new.name = (IF "name" \in DOMAIN o THEN o.name ELSE old.name)
                   /\ new.email = (IF "email" \in DOMAIN o THEN o.email ELSE old.email)
                   /\ new.id = old.id
                   /\ new.created_at = old.created_at
                   /\ \A k \in DOMAIN users_db \ {req'.arg} : users_db'[k] = users_db[k]
          ELSE /\ resp'.status = 404
               /\ HasKey(resp', "error")
               /\ users_db' = users_db ]_vars

\* C4, witnessed: a body holding only email is put on user 1 while user 2
\* is stored; the name stays and the email is the body's.
C4_Witness ==
    /\ Answered("PUT", <<"users", "*">>, 200)
    /\ req.arg = <<"1">>
    /\ DOMAIN req.data.o = {"email"}
    /\ resp.body.name = Alice
    /\ resp.body.email = Mail
    /\ <<"2">> \in DOMAIN users_db

\* C5: POST /users with no body, an empty object, no name key or a falsy
\* name is answered 400 with an error key, and users_db is unchanged.
C5_CreateUserRejected ==
    [][ (/\ Serves("POST", <<"users">>)
         /\ \/ req'.payload = "empty"
            \/ /\ ObjectBody(req')
               /\ \/ "name" \notin DOMAIN req'.data.o
                  \/ ~truthy(req'.data.o.name)) =>
          /\ resp'.status = 400
          /\ HasKey(resp', "error")
          /\ users_db' = users_db ]_vars

\* C6: GET /users/<id> is answered 200 with the stored user when id is a
\* key of users_db, and 404 with an error key otherwise.
C6_GetUser ==
    [][ Serves("GET", <<"users", "*">>) =>
          IF req'.arg \in DOMAIN users_db
          THEN resp'.status = 200 /\ resp'.body = users_db[req'.arg]
          ELSE resp'.status = 404 /\ HasKey(resp', "error") ]_vars

\* C6, witnessed: with users 1 and 2 stored, GET of an id no create has
\* assigned is answered 404.
C6_Witness ==
    /\ Answered("GET", <<"users", "*">>, 404)
    /\ DOMAIN users_db = {<<"1">>, <<"2">>}
    /\ req.arg \notin DOMAIN users_db
    /\ HasKey(resp, "error")

\* C7: POST /items with a JSON object body checks the presence of name,
\* then of price: without name it is answered 400 naming name, with name
\* and without price 400 naming price; with both keys it is accepted (201
\* when the price is a number) even when a value is falsy, where POST /users
\* answers 400 to a falsy name.  A 400 leaves items_db unchanged.
C7_CreateItemPresenceOnly ==
    [][ /\ (Serves("POST", <<"items">>) /\ ObjectBody(req')) =>
              LET o == req'.data.o
              IN  /\ "name" \notin DOMAIN o =>
                        /\ resp'.status = 400
                        /\ HasKey(resp', "error")
                        /\ resp'.body.error[2] = "name"
                  /\ ("name" \in DOMAIN o /\ "price" \notin DOMAIN o) =>
                        /\ resp'.status = 400
                        /\ HasKey(resp', "error")
                        /\ resp'.body.error[2] = "price"
                  /\ {"name", "price"} \subseteq DOMAIN o =>
                        /\ resp'.status # 400
                        /\ o.price.t = "num" =>
                              /\ resp'.status = 201
                              /\ resp'.body.name = o.name
                              /\ resp'.body.id \in DOMAIN items_db'
                              /\ items_db'[resp'.body.id] = resp'.body
                  /\ resp'.status = 400 => items_db' = items_db
        /\ (/\ Serves("POST", <<"users">>)
            /\ ObjectBody(req')
            /\ "name" \in DOMAIN req'.data.o
            /\ ~truthy(req'.data.o.name)) =>
              resp'.status = 400 /\ HasKey(resp', "error") ]_vars

\* C7, witnessed: an item with name "" and price 0 is created.
C7_Witness ==
    /\ Answered("POST", <<"items">>, 201)
    /\ req.data.o.name = JStr(<<>>)
    /\ req.data.o.price = JNum(0)
    /\ resp.body.name = JStr(<<>>)
    /\ resp.body.price = 0
    /\ resp.body.id \in DOMAIN items_db

\* The q parameter of a request, "" when it has none.
QueryOf(r) == IF "q" \in DOMAIN r.args THEN r.args.q ELSE <<>>

\* The stored items GET /items is to return for q: all of them for an
\* empty q, else those whose name contains q, letter case ignored.
Matching(items, q) ==
    {items[k] : k \in {j \in DOMAIN items :
                          \/ q = <<>>
                          \/ /\ items[j].name.t = "str"
                             /\ str_contains(lower(q), lower(items[j].name.s))}}

\* C8: GET /items returns exactly the stored items whose name contains q
\* (letter case ignored), or every stored item when q is absent or empty,
\* with count the number of items returned and query equal to q.
C8_GetItemsFilter ==
    [][ Serves("GET", <<"items">>) =>
          /\ resp'.status = 200
          /\ resp'.body.items = Matching(items_db, QueryOf(req'))
          /\ resp'.body.count = Cardinality(Matching(items_db, QueryOf(req')))
          /\ resp'.body.query = QueryOf(req') ]_vars

\* C9: GET /items, with or without q, is answered 200 in every reachable
\* state of items_db.
C9_GetItemsAlways200 ==
    [][ Serves("GET", <<"items">>) => resp'.status = 200 ]_vars

\* C10: every GET request leaves users_db and items_db unchanged, and
\* GET /users reports count equal to the number of stored users.
C10_GetChangesNothing ==
    [][ (Idle /\ req'.method = "GET") =>
          /\ users_db' = users_db
          /\ items_db' = items_db
          /\ req'.path = <<"users">> =>
                /\ resp'.status = 200
                /\ resp'.body.count = Cardinality(DOMAIN users_db)
                /\ resp'.body.users = {users_db[k] : k \in DOMAIN users_db} ]_vars

\* C10, witnessed: GET /users reports two users while an item is stored.
C10_Witness ==
    /\ Answered("GET", <<"users">>, 200)
    /\ resp.body.count = 2
    /\ Cardinality(DOMAIN users_db) = 2
    /\ DOMAIN items_db # {}

\* C11: every user returned by a successful POST /users has created_at
\* equal to updated_at, however the clock behaves between the two readings
\* the handler makes of it.
C11_CreatedEqualsUpdated ==
    [][ (Serves("POST", <<"users">>) /\ resp'.status = 201) =>
          /\ resp'.body.created_at = resp'.body.updated_at
          /\ users_db'[resp'.body.id].created_at =
                 users_db'[resp'.body.id].updated_at ]_vars

\* C12: every successful PUT /users/<id> stamps updated_at with the time of
\* the request, whichever fields the body holds, and that updated_at is
\* strictly later than the user's created_at.
C12_UpdatedStrictlyLater ==
    [][ (Serves("PUT", <<"users", "*">>) /\ resp'.status = 200) =>
          /\ resp'.body.updated_at = isoformat(clock')
          /\ users_db'[req'.arg].updated_at = isoformat(clock')
          /\ resp'.body.updated_at.iso > resp'.body.created_at.iso ]_vars

\* C14: for a POST or PUT whose body is absent or is no valid JSON, the
\* logging hook never aborts the request: the response and the dicts are
\* those the dispatch to the route gives without the hook.
C14_HookNeverAborts ==
    [][ (Idle /\ req'.method \in {"POST", "PUT"} /\ req'.payload # "json") =>
          \E w \in Werkzeug, t2 \in clock..(clock + 1) :
              LET out == dispatch_request(req', users_db, items_db, clock, t2, w)
              IN  /\ resp' = finalize_request(req', out.rv)
                  /\ users_db' = out.users
                  /\ items_db' = out.items ]_vars

\* The request makes its view fail unexpectedly: POST /items with a price
\* float() rejects, POST /items with no JSON body, PUT /users/<id> of a
\* stored id with no JSON body.
UnexpectedFailure(r, users) ==
    \/ /\ r.method = "POST" /\ r.path = <<"items">>
       /\ \/ r.payload = "empty"
          \/ /\ ObjectBody(r)
             /\ {"name", "price"} \subseteq DOMAIN r.data.o
             /\ float(r.data.o.price).exc # ""
    \/ /\ r.method = "PUT" /\ r.path = <<"users", "*">>
       /\ r.arg \in DOMAIN users
       /\ r.payload = "empty"

\* C15: under the configuration the server starts with, every unexpected
\* failure inside a view is answered 500 with the generic JSON body (an
\* error key and a message key), never with a stack trace.
C15_FailureIsGeneric500 ==
    [][ (Idle /\ UnexpectedFailure(req', users_db)) =>
          /\ resp'.status = 500
          /\ HasKey(resp', "error")
          /\ HasKey(resp', "message")
          /\ "traceback" \notin DOMAIN resp'.body ]_vars

\* C16: a successful POST /items returns as id the decimal string of
\* (number of stored items + 1) whatever users_db holds; no request to a
\* /users route changes items_db and none to an /items route changes users_db.
C16_UsersItemsIndependent ==
    [][ /\ (Serves("POST", <<"items">>) /\ resp'.status = 201) =>
              /\ IsDecimalOf(resp'.body.id, Cardinality(DOMAIN items_db) + 1)
              /\ resp'.body.id \in DOMAIN items_db'
        /\ (Idle /\ req' # NoRequest /\ req'.path # <<>> /\ req'.path[1] = "users") =>
              items_db' = items_db
        /\ (Idle /\ req' # NoRequest /\ req'.path # <<>> /\ req'.path[1] = "items") =>
              users_db' = users_db ]_vars

\* C16, witnessed: the first item is created, with id "1", while two users
\* are stored.
C16_Witness ==
    /\ Answered("POST", <<"items">>, 201)
    /\ resp.body.id = <<"1">>
    /\ DOMAIN items_db = {<<"1">>}
    /\ Cardinality(DOMAIN users_db) = 2

\* C18: served one at a time, every request answered 400, 404 or 500 leaves
\* users_db and items_db exactly as they were.
C18_ErrorChangesNothing ==
    [][ (Idle /\ req' # NoRequest /\ resp'.status \in {400, 404, 500}) =>
          /\ users_db' = users_db
          /\ items_db' = items_db ]_vars

\* C18, witnessed: PUT /users/<id> of a stored user with a JSON list as
\* body is answered 500 while an item is stored.
C18_Witness ==
    /\ Answered("PUT", <<"users", "*">>, 500)
    /\ req.arg \in DOMAIN users_db
    /\ req.payload = "json"
    /\ req.data.t = "list"
    /\ DOMAIN items_db # {}

\* Thread t has its response: this status, to a request of this method and path.
Done(t, method, path, status) ==
    /\ threads[t].pc = "done"
    /\ threads[t].req.method = method
    /\ threads[t].req.path = path
    /\ threads[t].resp.status = status

\* C13: two POST /users run by two threads can both read the same size of
\* users_db; both are then answered 201 with the same id, users_db holds
\* under that id one of the two users only, and it has grown by one user at
\* most (one create is lost).
C13_LostCreate ==
    \A t \in Threads, u \in Threads :
        (/\ t # u
         /\ Done(t, "POST", <<"users">>, 201)
         /\ Done(u, "POST", <<"users">>, 201)
         /\ threads[t].key = threads[u].key) =>
            LET id == threads[t].key
            IN  /\ threads[t].resp.body.id = id
                /\ threads[u].resp.body.id = id
                /\ id \in DOMAIN users_db
                /\ users_db[id] \in {threads[t].resp.body, threads[u].resp.body}
                /\ Cardinality(DOMAIN users_db) <= DigitsValue(id)

\* C13, witnessed: both threads read the empty users_db, both are answered
\* 201 with id "1", for two different users, and users_db holds one user.
C13_Witness ==
    /\ Done(1, "POST", <<"users">>, 201)
    /\ Done(2, "POST", <<"users">>, 201)
    /\ threads[1].resp.body.id = <<"1">>
    /\ threads[2].resp.body.id = <<"1">>
    /\ threads[1].resp.body.name # threads[2].resp.body.name
    /\ DOMAIN users_db = {<<"1">>}

\* s is the decimal string of a positive integer.
IsPositiveDecimal(s) ==
    /\ Len(s) >= 1
    /\ \A k \in 1..Len(s) : IsDigit(s[k])
    /\ s[1] # "0"

\* C17: in every reachable state, under any interleaving of two requests,
\* every entry of users_db and of items_db has an id field equal to its key,
\* and the key is the decimal string of a positive integer.
C17_IdIsKey ==
    /\ \A k \in DOMAIN users_db : users_db[k].id = k /\ IsPositiveDecimal(k)
    /\ \A k \in DOMAIN items_db : items_db[k].id = k /\ IsPositiveDecimal(k)

\* C17, witnessed: a PUT stored its user again after a DELETE of the same
\* id, run by the other thread, had removed it; both were answered 200, the
\* user is stored under its id, and an item is stored.
C17_Witness ==
    \E t \in Threads, u \in Threads :
        /\ Done(t, "DELETE", <<"users", "*">>, 200)
        /\ Done(u, "PUT", <<"users", "*">>, 200)
        /\ threads[t].req.arg = threads[u].req.arg
        /\ threads[u].req.arg \in DOMAIN users_db
        /\ users_db[threads[u].req.arg].id = threads[u].req.arg
        /\ DOMAIN items_db # {}

====
